---- MODULE Spec2Model ----
(***************************************************************************)
(* A model of src/logger.js: the Logger class (construction, child        *)
(* loggers, the four emit methods funnelling into output, the legacy       *)
(* setSessionId mutation and the static current() lookup on the active     *)
(* domain).                                                                *)
(*                                                                         *)
(* Representation of JavaScript values:                                    *)
(*   - a string (namespace, pattern expression) is a sequence of           *)
(*     one-character strings; the value undefined of such a property is    *)
(*     UndefStr;                                                           *)
(*   - a level is one of "debug", "log", "warn", "error"; an undefined     *)
(*     level is UndefLevel;                                                *)
(*   - a size limit is <<n>>; an undefined limit is NoLimit;               *)
(*   - a context object lives in heap; a reference is its index and the    *)
(*     reference 0 is undefined;                                           *)
(*   - a logger lives in loggers; a reference is its index and the         *)
(*     reference 0 is undefined.                                           *)
(***************************************************************************)
EXTENDS Integers, Sequences, FiniteSets

VARIABLES env, heap, loggers, out, ncalls, last,
          domains, active, running, cbScope, pending, results

vars == <<env, heap, loggers, out, ncalls, last,
          domains, active, running, cbScope, pending, results>>

loggerVars == <<env, heap, loggers, out, ncalls, last>>

ambientVars == <<domains, active, running, cbScope, pending, results>>

-----------------------------------------------------------------------------
(* Bounds of the model. *)

MaxLoggers == 3

MaxCalls == 2

MaxHeap == 2

MaxScopes == 2

MaxPending == 1

MaxTerms == 2

MaxTreeCalls == 1

-----------------------------------------------------------------------------
(* JavaScript values. *)

UndefStr == <<"undefined">>

UndefLevel == "undefined"

NoLimit == <<>>

EmptyStr == <<>>

\* JavaScript truthiness of a string-valued property: undefined and '' are falsy.
Truthy(s) == s # UndefStr /\ s # EmptyStr

\* A context object: the application's own field a, and sessionId.
EmptyCtx == [a |-> "absent", sessionId |-> "absent"]

AppCtx == [a |-> "1", sessionId |-> "absent"]

\* The value a context reference denotes in heap h (undefined reads as no fields).
CtxOf(h, ref) == IF ref = 0 THEN EmptyCtx ELSE h[ref]

CtxVal(ref) == CtxOf(heap, ref)

-----------------------------------------------------------------------------
(* levels.js and log-level-filter.js are not among the source files: the   *)
(* level filter is modelled from the specification (section 4.2).          *)

Levels == {"debug", "log", "warn", "error"}

LevelRank == [debug |-> 0, log |-> 1, warn |-> 2, error |-> 3]

\* Allow iff rank(severity) >= rank(threshold); a threshold that is no level
\* has no rank, and the comparison with it is not true.
logLevelFilter(logLevel, outputType) ==
    IF logLevel \in Levels /\ outputType \in Levels
    THEN LevelRank[outputType] >= LevelRank[logLevel]
    ELSE FALSE

-----------------------------------------------------------------------------
(* is-enabled.js is not among the source files: the namespace matcher is   *)
(* modelled from the specification (section 4.1), on the characters of the *)
(* pattern expression.                                                     *)

RECURSIVE SplitOn(_, _, _)
\* s split at every sep; cur is the term read so far.
SplitOn(s, sep, cur) ==
    IF s = <<>> THEN <<cur>>
    ELSE IF Head(s) = sep THEN <<cur>> \o SplitOn(Tail(s), sep, <<>>)
    ELSE SplitOn(Tail(s), sep, Append(cur, Head(s)))

IsPrefix(p, s) == Len(p) <= Len(s) /\ SubSeq(s, 1, Len(p)) = p

\* A term without wildcard requires equality; a term ending in * requires the
\* namespace to start with what precedes the *.
TermMatches(t, ns) ==
    IF t # <<>> /\ t[Len(t)] = "*"
    THEN IsPrefix(SubSeq(t, 1, Len(t) - 1), ns)
    ELSE t = ns

isEnabled(namespace, logPatterns) ==
    IF ~Truthy(logPatterns) THEN TRUE
    ELSE LET all == SplitOn(logPatterns, ",", <<>>)
             terms == {all[i] : i \in {j \in 1..Len(all) : all[j] # <<>>}}
             incl == {t \in terms : Head(t) # "-"}
             excl == {Tail(t) : t \in {u \in terms : Head(u) = "-"}}
         IN /\ (incl = {} \/ \E t \in incl : TermMatches(t, namespace))
            /\ ~(\E t \in excl : TermMatches(t, namespace))

-----------------------------------------------------------------------------
(* serializer.js and event-formatter.js are not among the source files:    *)
(* they are modelled from the specification (section 4.3).                 *)

TruncationMarker == <<".", ".", ".">>

\* The encoded bytes of a context object: one byte per field it has.
Encode(c) ==
    (IF c.a = "absent" THEN <<>> ELSE <<"a">>)
    \o (IF c.sessionId = "absent" THEN <<>> ELSE <<"s">>)

\* new Serializer(contextData, namespace, logLimit)
Serializer(context, namespace, logLimit) ==
    [context |-> context, namespace |-> namespace, logLimit |-> logLimit]

Exceeds(bytes, logLimit) == logLimit # NoLimit /\ Len(bytes) > logLimit[1]

\* The size-bounded payload: cut to logLimit bytes, marker appended, only for
\* the most verbose level.
Bounded(bytes, logLimit, level) ==
    IF level = "debug" /\ Exceeds(bytes, logLimit)
    THEN SubSeq(bytes, 1, logLimit[1]) \o TruncationMarker
    ELSE bytes

\* serializer.serialize(message, additionalArguments, outputType), with the
\* serializer's own context read from heap h at time ts.
serialize(ser, h, message, extra, level, ts) ==
    [timestamp |-> ts,
     level     |-> level,
     message   |-> message,
     namespace |-> ser.namespace,
     context   |-> CtxOf(h, ser.context),
     payload   |-> Bounded(Encode(CtxOf(h, ser.context)) \o extra, ser.logLimit, level)]

\* eventFormatter(event, logFormat): no format is configured in the model.
eventFormatter(event) == event

-----------------------------------------------------------------------------
(* Logger: src/logger.js.                                                  *)

DefaultLogLimit == 7000

\* DEFAULT_LOGGER_ATTRIBUTES, read once from the process environment e.
DEFAULT_LOGGER_ATTRIBUTES(e) ==
    [context     |-> 0,
     logLevel    |-> IF e.LOG_LEVEL # UndefLevel THEN e.LOG_LEVEL ELSE "error",
     logLimit    |-> IF e.LOG_LIMIT # NoLimit THEN e.LOG_LIMIT ELSE <<DefaultLogLimit>>,
     logPatterns |-> IF Truthy(e.LOG_NAMESPACES) THEN e.LOG_NAMESPACES ELSE UndefStr,
     namespace   |-> EmptyStr]

\* The arguments of new Logger(options, ...extraParameters):
\*   form "none":       no options (falsy);
\*   form "options":    an options object having the properties named in keys;
\*   form "positional": options is the context itself and extraLen further
\*                      parameters [namespace, logPatterns, logLimit, logLevel]
\*                      follow (a parameter that is not passed is undefined).
normalizeArguments(a, e) ==
    LET d == DEFAULT_LOGGER_ATTRIBUTES(e) IN
    IF a.form = "none" THEN d
    ELSE IF a.extraLen = 0
    THEN \* Object.assign({}, DEFAULT_LOGGER_ATTRIBUTES, options)
         [context     |-> IF "context" \in a.keys THEN a.context ELSE d.context,
          logLevel    |-> IF "logLevel" \in a.keys THEN a.logLevel ELSE d.logLevel,
          logLimit    |-> IF "logLimit" \in a.keys THEN a.logLimit ELSE d.logLimit,
          logPatterns |-> IF "logPatterns" \in a.keys THEN a.logPatterns ELSE d.logPatterns,
          namespace   |-> IF "namespace" \in a.keys THEN a.namespace ELSE d.namespace]
    ELSE [context     |-> a.context,
          logLevel    |-> IF a.extraLen >= 4 THEN a.logLevel ELSE UndefLevel,
          logLimit    |-> IF a.extraLen >= 3 THEN a.logLimit ELSE NoLimit,
          logPatterns |-> IF a.extraLen >= 2 THEN a.logPatterns ELSE UndefStr,
          namespace   |-> a.namespace]

\* The constructor's Object.assign(this, {...}) on normalized arguments n. The
\* serializer gets a contextData object of its own holding the same context
\* reference. origin is history: how the logger was made (for a pattern
\* expression the application joined from terms, those terms).
ConstructorNoLimit(n, origin) ==
    [context     |-> n.context,
     logLevel    |-> n.logLevel,
     logLimit    |-> n.logLimit,
     logPatterns |-> n.logPatterns,
     namespace   |-> n.namespace,
     serializer  |-> Serializer(n.context, n.namespace, NoLimit),
     origin      |-> origin]

Constructor(n, origin) ==
    [context     |-> n.context,
     logLevel    |-> n.logLevel,
     logLimit    |-> n.logLimit,
     logPatterns |-> n.logPatterns,
     namespace   |-> n.namespace,
     serializer  |-> Serializer(n.context, n.namespace, n.logLimit),
     origin      |-> origin]

\* shouldSuppressOutput: some response of the two filters is not true.
shouldSuppressOutputEvery(l, outputType) ==
    \A response \in {logLevelFilter(l.logLevel, outputType),
                     isEnabled(l.namespace, l.logPatterns)} : response # TRUE

shouldSuppressOutputSwapped(l, outputType) ==
    \E response \in {logLevelFilter(l.logLevel, outputType),
                     isEnabled(l.logPatterns, l.namespace)} : response # TRUE

shouldSuppressOutput(l, outputType) ==
    \E response \in {logLevelFilter(l.logLevel, outputType),
                     isEnabled(l.namespace, l.logPatterns)} : response # TRUE

\* console.log of the formatted event: o is what the console has received.
ConsoleLogFirst(o, e) == <<e>> \o o

ConsoleLog(o, e) == Append(o, e)

NoOp == [op |-> "none", logger |-> 0, type |-> UndefLevel, message |-> "",
         extra |-> <<>>, ts |-> 0, id |-> "absent", suffix |-> EmptyStr]

\* output(message, additionalArguments, outputType) on logger reference l at
\* time ts. ncalls and last are history: the number of emit calls made and the
\* operation made last. The record handed to the console carries, as history,
\* the logger and the number of the call it comes from.
output(l, message, extra, outputType, ts, method) ==
    /\ ncalls < MaxCalls
    /\ ncalls' = ncalls + 1
    /\ last' = [NoOp EXCEPT !.op = method, !.logger = l, !.type = outputType,
                            !.message = message, !.extra = extra, !.ts = ts]
    /\ IF shouldSuppressOutput(loggers[l], outputType)
       THEN out' = out
       ELSE LET event == serialize(loggers[l].serializer, heap, message, extra,
                                   outputType, ts)
                formattedEvent == eventFormatter(event)
            IN out' = ConsoleLog(out, [event  |-> formattedEvent,
                                       logger |-> l,
                                       seq    |-> ncalls + 1])
    /\ UNCHANGED <<env, heap, loggers>>
    /\ UNCHANGED ambientVars

info(l, message, extra, ts) == output(l, message, extra, "log", ts, "info")

warn(l, message, extra, ts) == output(l, message, extra, "warn", ts, "warn")

error(l, message, extra, ts) == output(l, message, extra, "error", ts, "error")

debug(l, message, extra, ts) == output(l, message, extra, "debug", ts, "debug")

\* new Logger(...) called by the application with arguments a; an argument
\* carrying a context brings a fresh context object.
NewLogger(a) ==
    /\ Len(loggers) < MaxLoggers
    /\ LET withCtx == a.form = "positional" \/ "context" \in a.keys
           args == [a EXCEPT !.context = IF withCtx THEN Len(heap) + 1 ELSE 0]
       IN /\ withCtx => Len(heap) < MaxHeap
          /\ heap' = IF withCtx THEN Append(heap, AppCtx) ELSE heap
          /\ loggers' = Append(loggers,
                 Constructor(normalizeArguments(args, env),
                             [kind |-> a.form, parent |-> 0, suffix |-> EmptyStr,
                              terms |-> a.terms,
                              explicitLevel |-> IF a.form = "options"
                                                   /\ "logLevel" \in a.keys
                                                THEN a.logLevel
                                                ELSE IF a.form = "positional"
                                                        /\ a.extraLen >= 4
                                                THEN a.logLevel ELSE UndefLevel]))
    /\ last' = [NoOp EXCEPT !.op = "new", !.logger = Len(loggers) + 1]
    /\ UNCHANGED <<env, out, ncalls>>
    /\ UNCHANGED ambientVars

\* The options createChildLogger passes to new Logger.
childOptionsInheritLevel(parent, namespace) ==
    [form |-> "options", keys |-> {"context", "logPatterns", "namespace", "logLevel"},
     context |-> parent.context, logPatterns |-> parent.logPatterns,
     namespace |-> (IF Truthy(parent.namespace) THEN parent.namespace \o <<":">>
                    ELSE EmptyStr) \o namespace,
     logLimit |-> NoLimit, logLevel |-> parent.logLevel, extraLen |-> 0,
     terms |-> <<>>]

childOptions(parent, namespace) ==
    LET prefix == IF Truthy(parent.namespace) THEN parent.namespace \o <<":">>
                  ELSE EmptyStr
    IN [form |-> "options", keys |-> {"context", "logPatterns", "namespace"},
        context |-> parent.context, logPatterns |-> parent.logPatterns,
        namespace |-> prefix \o namespace,
        logLimit |-> NoLimit, logLevel |-> UndefLevel, extraLen |-> 0,
        terms |-> <<>>]

createChildLogger(l, namespace) ==
    /\ Len(loggers) < MaxLoggers
    /\ loggers' = Append(loggers,
           Constructor(normalizeArguments(childOptions(loggers[l], namespace), env),
                       [kind |-> "child", parent |-> l, suffix |-> namespace,
                        terms |-> <<>>, explicitLevel |-> UndefLevel]))
    /\ last' = [NoOp EXCEPT !.op = "createChildLogger", !.logger = l,
                            !.suffix = namespace]
    /\ UNCHANGED <<env, heap, out, ncalls>>
    /\ UNCHANGED ambientVars

\* setSessionId: Object.assign({}, this.contextData.context, { sessionId }) is a
\* new object, and only this.contextData.context is pointed at it.
setSessionIdInPlace(l, sessionId) ==
    /\ loggers[l].context # 0
    /\ heap' = [heap EXCEPT ![loggers[l].context].sessionId = sessionId]
    /\ last' = [NoOp EXCEPT !.op = "setSessionId", !.logger = l, !.id = sessionId]
    /\ UNCHANGED <<env, loggers, out, ncalls>>
    /\ UNCHANGED ambientVars

setSessionId(l, sessionId) ==
    /\ Len(heap) < MaxHeap
    /\ heap' = Append(heap, [CtxVal(loggers[l].context) EXCEPT !.sessionId = sessionId])
    /\ loggers' = [loggers EXCEPT ![l].context = Len(heap) + 1]
    /\ last' = [NoOp EXCEPT !.op = "setSessionId", !.logger = l, !.id = sessionId]
    /\ UNCHANGED <<env, out, ncalls>>
    /\ UNCHANGED ambientVars

-----------------------------------------------------------------------------
(* Logger.current() and the active domain.                                 *)
(*                                                                         *)
(* domains[s] is the logger property of domain s (0: none was set); active *)
(* is domain.active (0: no domain is active). The domain module is the     *)
(* runtime's: a domain entered with run() is active while its callback     *)
(* runs, a callback scheduled while a domain is active runs with that      *)
(* domain active, and callbacks run one at a time, to completion. cbScope  *)
(* is history: the scope whose continuation chain the running code is in.  *)
(* pending[s] counts the callbacks scheduled from scope s and not yet run. *)

MaxResults == 3

\* static current(): [fresh |-> TRUE] stands for new Logger().
currentGlobal(d, act) ==
    IF d = <<>> THEN [fresh |-> TRUE, logger |-> 0]
    ELSE [fresh |-> FALSE, logger |-> d[Len(d)]]

current(d, act) ==
    IF act = 0 THEN [fresh |-> TRUE, logger |-> 0]
    ELSE [fresh |-> FALSE, logger |-> d[act]]

origCurrent == [kind |-> "current", parent |-> 0, suffix |-> EmptyStr,
                terms |-> <<>>, explicitLevel |-> UndefLevel]

NoArgs == [form |-> "none", keys |-> {}, context |-> 0, namespace |-> UndefStr,
           logPatterns |-> UndefStr, logLimit |-> NoLimit, logLevel |-> UndefLevel,
           extraLen |-> 0, terms |-> <<>>]

\* The running code calls Logger.current(); results is the history of the
\* calls: the scope of the caller and the reference returned.
CallCurrent ==
    /\ running
    /\ Len(results) < MaxResults
    /\ LET c == current(domains, active) IN
       IF c.fresh
       THEN /\ Len(loggers) < MaxLoggers
            /\ loggers' = Append(loggers,
                   Constructor(normalizeArguments(NoArgs, env), origCurrent))
            /\ results' = Append(results, [scope |-> cbScope,
                                           logger |-> Len(loggers) + 1])
       ELSE /\ loggers' = loggers
            /\ results' = Append(results, [scope |-> cbScope, logger |-> c.logger])
    /\ last' = [NoOp EXCEPT !.op = "current"]
    /\ UNCHANGED <<env, heap, out, ncalls>>
    /\ UNCHANGED <<domains, active, running, cbScope, pending>>

\* A scope is entered from outside any domain: domain.create(), the logger
\* bound to it (bind) or not, and run(): its callback starts.
EnterScope(bind) ==
    /\ ~running
    /\ Len(domains) < MaxScopes
    /\ IF bind
       THEN /\ Len(loggers) < MaxLoggers
            /\ loggers' = Append(loggers,
                   Constructor(normalizeArguments(NoArgs, env),
                               [origCurrent EXCEPT !.kind = "bound"]))
            /\ domains' = Append(domains, Len(loggers) + 1)
       ELSE /\ loggers' = loggers
            /\ domains' = Append(domains, 0)
    /\ active' = Len(domains) + 1
    /\ cbScope' = Len(domains) + 1
    /\ running' = TRUE
    /\ last' = [NoOp EXCEPT !.op = "enter"]
    /\ UNCHANGED <<env, heap, out, ncalls, pending, results>>

\* Code outside any domain starts running.
TopLevel ==
    /\ ~running
    /\ running' = TRUE
    /\ active' = 0
    /\ cbScope' = 0
    /\ UNCHANGED <<domains, pending, results>>
    /\ UNCHANGED loggerVars

\* The running code schedules a callback: it will run in the same scope.
Schedule ==
    /\ running
    /\ pending[cbScope] < MaxPending
    /\ pending' = [pending EXCEPT ![cbScope] = @ + 1]
    /\ UNCHANGED <<domains, active, running, cbScope, results>>
    /\ UNCHANGED loggerVars

\* The running code returns to the event loop.
Return ==
    /\ running
    /\ running' = FALSE
    /\ active' = 0
    /\ cbScope' = 0
    /\ UNCHANGED <<domains, pending, results>>
    /\ UNCHANGED loggerVars

\* The event loop runs a callback scheduled from scope s.
Dispatch(s) ==
    /\ ~running
    /\ pending[s] > 0
    /\ pending' = [pending EXCEPT ![s] = @ - 1]
    /\ running' = TRUE
    /\ active' = s
    /\ cbScope' = s
    /\ UNCHANGED <<domains, results>>
    /\ UNCHANGED loggerVars

-----------------------------------------------------------------------------
(* Inputs. *)

Db == <<"d", "b">>

V == <<"v">>

\* "db,-db:v"
DbPattern == <<"d", "b", ",", "-", "d", "b", ":", "v">>

\* "db*"
DbStar == <<"d", "b", "*">>

\* The message of a call and the time new Date() reads at it.
Calls == {[message |-> "m1", ts |-> 0], [message |-> "m2", ts |-> 1]}

\* The encoded additional arguments of a call: none, or six bytes.
FirstCall == {[message |-> "m1", ts |-> 0]}

Extras == {<<>>, <<"x", "x", "x", "x", "x", "x">>}

SessionIds == {"s1"}

\* An options object; each of c, ns, p, lm, lv is <<present, value>>.
Options(c, ns, p, lm, lv) ==
    [form |-> "options",
     keys |-> {k \in {"context", "namespace", "logPatterns", "logLimit", "logLevel"} :
                  \/ k = "context" /\ c[1]
                  \/ k = "namespace" /\ ns[1]
                  \/ k = "logPatterns" /\ p[1]
                  \/ k = "logLimit" /\ lm[1]
                  \/ k = "logLevel" /\ lv[1]},
     context |-> 0, namespace |-> ns[2], logPatterns |-> p[2], logLimit |-> lm[2],
     logLevel |-> lv[2], extraLen |-> 0, terms |-> <<>>]

\* new Logger(context, namespace, logPatterns, logLimit, logLevel) with the
\* first n of the four extra parameters passed.
Positional(n) ==
    [form |-> "positional", keys |-> {}, context |-> 0, namespace |-> Db,
     logPatterns |-> DbPattern, logLimit |-> <<2>>, logLevel |-> "debug",
     extraLen |-> n, terms |-> <<>>]

WideArgs ==
    {NoArgs}
    \cup {Positional(n) : n \in 1..4}
    \cup {Options(c, ns, p, lm, lv) :
            c \in {<<FALSE, 0>>, <<TRUE, 0>>},
            ns \in {<<FALSE, UndefStr>>, <<TRUE, Db>>},
            p \in {<<FALSE, UndefStr>>, <<TRUE, DbPattern>>},
            lm \in {<<FALSE, NoLimit>>, <<TRUE, <<2>> >>},
            lv \in {<<FALSE, UndefLevel>>, <<TRUE, "warn">>, <<TRUE, "debug">>}}

RootArgs ==
    {Options(<<TRUE, 0>>, <<TRUE, Db>>, <<TRUE, DbPattern>>, <<FALSE, NoLimit>>,
             <<TRUE, "warn">>),
     Options(<<TRUE, 0>>, <<FALSE, UndefStr>>, <<FALSE, UndefStr>>, <<TRUE, <<2>> >>,
             <<TRUE, "debug">>)}

TreeArgs == RootArgs \cup {NoArgs, Positional(1)}

\* No variable of the environment is set.
NoEnv == [LOG_LEVEL |-> UndefLevel, LOG_LIMIT |-> NoLimit, LOG_NAMESPACES |-> UndefStr]

Envs == {NoEnv,
         [LOG_LEVEL |-> "warn", LOG_LIMIT |-> NoLimit, LOG_NAMESPACES |-> DbStar]}

-----------------------------------------------------------------------------
(* Specifications. *)

\* The program starts with its main script running, outside any domain.
InitAmbient ==
    /\ domains = <<>>
    /\ active = 0
    /\ running = TRUE
    /\ cbScope = 0
    /\ pending = [s \in 0..MaxScopes |-> 0]
    /\ results = <<>>

Init ==
    /\ env \in Envs
    /\ heap = <<>>
    /\ loggers = <<>>
    /\ out = <<>>
    /\ ncalls = 0
    /\ last = NoOp
    /\ InitAmbient

Emit(l, Cs, Xs) ==
    \E c \in Cs, x \in Xs :
        \/ info(l, c.message, x, c.ts)
        \/ warn(l, c.message, x, c.ts)
        \/ error(l, c.message, x, c.ts)
        \/ debug(l, c.message, x, c.ts)

\* The life of a family of loggers: the construction of its root, children,
\* session ids, calls, and the loggers Logger.current() makes.
Next ==
    \/ loggers = <<>> /\ \E a \in RootArgs : NewLogger(a)
    \/ \E l \in 1..Len(loggers) : createChildLogger(l, V)
    \/ \E l \in 1..Len(loggers), id \in SessionIds : setSessionId(l, id)
    \/ \E l \in 1..Len(loggers) : ncalls < MaxTreeCalls /\ Emit(l, FirstCall, {<<>>})
    \/ CallCurrent

InitNoEnv == Init /\ env = NoEnv

Spec == InitNoEnv /\ [][Next]_vars

\* A root logger of every kind, its descendants by createChildLogger, and
\* session ids, under every environment.
NextChild ==
    \/ loggers = <<>> /\ \E a \in TreeArgs : NewLogger(a)
    \/ \E l \in 1..Len(loggers), suffix \in {V, Db} : createChildLogger(l, suffix)
    \/ \E l \in 1..Len(loggers), id \in SessionIds : setSessionId(l, id)

SpecChild == Init /\ [][NextChild]_vars

\* One logger, built from every form of arguments, and the calls made on it.
NextEmit ==
    \/ loggers = <<>> /\ \E a \in WideArgs : NewLogger(a)
    \/ loggers # <<>> /\ Emit(1, Calls, Extras)

SpecEmit == Init /\ [][NextEmit]_vars

\* Scopes entered and left, their callbacks interleaved, and the calls of
\* Logger.current() made by the running code.
NextAmbient ==
    \/ \E bind \in BOOLEAN : EnterScope(bind)
    \/ TopLevel
    \/ CallCurrent
    \/ Schedule
    \/ Return
    \/ \E s \in 0..MaxScopes : Dispatch(s)

SpecAmbient == Init /\ [][NextAmbient]_vars

-----------------------------------------------------------------------------
(* The namespace matcher on pattern expressions joined from terms.         *)

Api == <<"a", "p", "i">>

ApiChild == <<"a", "p", "i", ":", "c", "h", "i", "l", "d">>

Other == <<"o", "t", "h", "e", "r">>

A == <<"a">>

AC == <<"a", ":", "c">>

MatchNamespaces == {EmptyStr, A, AC, <<"c">>, Api, ApiChild, Other}

\* A term the application writes: an exclusion (neg) or inclusion term of body
\* body, with a trailing wildcard (star) or not. EmptyTerm is the malformed
\* empty term between two commas.
EmptyTerm == [neg |-> FALSE, body |-> EmptyStr, star |-> FALSE]

Terms == [neg : BOOLEAN, body : {EmptyStr, A, AC}, star : BOOLEAN]

\* "api,-api:child"
ApiTerms == <<[neg |-> FALSE, body |-> Api, star |-> FALSE],
              [neg |-> TRUE, body |-> ApiChild, star |-> FALSE]>>

TermLists == UNION {[1..n -> Terms] : n \in 0..MaxTerms} \cup {ApiTerms}

Render(t) ==
    (IF t.neg THEN <<"-">> ELSE <<>>) \o t.body \o (IF t.star THEN <<"*">> ELSE <<>>)

RECURSIVE Join(_)
\* The pattern expression: the terms, comma-separated.
Join(ts) ==
    IF ts = <<>> THEN EmptyStr
    ELSE IF Len(ts) = 1 THEN Render(ts[1])
    ELSE Render(ts[1]) \o <<",">> \o Join(Tail(ts))

MatchArgs ==
    {[Options(<<FALSE, 0>>, <<TRUE, ns>>, <<TRUE, Join(ts)>>, <<FALSE, NoLimit>>,
              <<TRUE, "debug">>) EXCEPT !.terms = ts] :
        ns \in MatchNamespaces, ts \in TermLists}
    \cup {Options(<<FALSE, 0>>, <<TRUE, ns>>, <<present, UndefStr>>, <<FALSE, NoLimit>>,
                  <<TRUE, "debug">>) : ns \in MatchNamespaces, present \in BOOLEAN}

\* One logger of every namespace and pattern expression, and one call on it.
NextMatcher ==
    \/ loggers = <<>> /\ \E a \in MatchArgs : NewLogger(a)
    \/ loggers # <<>> /\ ncalls = 0 /\ Emit(1, FirstCall, {<<>>})

SpecMatcher == Init /\ [][NextMatcher]_vars

-----------------------------------------------------------------------------
(* Properties.                                                             *)

EmitOps == {"info", "warn", "error", "debug"}

\* The call made last was an emit call and its event reached the console.
LastEmitted ==
    /\ last.op \in EmitOps
    /\ out # <<>>
    /\ out[Len(out)].seq = ncalls

\* C1: a call of debug, info, warn or error hands exactly one event record
\* (of that call's logger, message and severity) to the console if the level
\* filter and the namespace matcher both allow it, and otherwise none; in both
\* cases the call leaves the loggers, the context objects, the environment and
\* the ambient context as they were.
C1_EmitIffBothAllow ==
    [][ncalls' = ncalls + 1 =>
          LET l == loggers[last'.logger]
              allowed == /\ logLevelFilter(l.logLevel, last'.type) = TRUE
                         /\ isEnabled(l.namespace, l.logPatterns) = TRUE
          IN /\ last'.op \in EmitOps
             /\ IF allowed
                THEN /\ Len(out') = Len(out) + 1
                     /\ \A i \in 1..Len(out) : out'[i] = out[i]
                     /\ out'[Len(out')].logger = last'.logger
                     /\ out'[Len(out')].event.message = last'.message
                     /\ out'[Len(out')].event.level = last'.type
                ELSE out' = out
             /\ loggers' = loggers
             /\ heap' = heap
             /\ env' = env
             /\ UNCHANGED ambientVars]_vars

\* The scenario of C1: namespace "db", patterns "db,-db:v", threshold warn; info
\* was suppressed by level although the namespace matches, then warn emitted.
C1_Witness ==
    /\ loggers # <<>>
    /\ loggers[1].namespace = Db
    /\ loggers[1].logPatterns = DbPattern
    /\ loggers[1].logLevel = "warn"
    /\ ncalls = 2
    /\ Len(out) = 1
    /\ out[1].seq = 2
    /\ last.op = "warn"

\* The matcher as the specification states it, on the terms themselves.
SpecEnabled(ns, ts) ==
    LET real == {i \in 1..Len(ts) : ts[i] # EmptyTerm}
        incl == {i \in real : ~ts[i].neg}
        excl == {i \in real : ts[i].neg}
        M(t) == IF t.star THEN IsPrefix(t.body, ns) ELSE t.body = ns
    IN /\ (incl = {} \/ \E i \in incl : M(ts[i]))
       /\ ~(\E i \in excl : M(ts[i]))

\* C2: a logger whose threshold lets every severity through emits iff its
\* namespace matches an inclusion term of its pattern expression (or there is
\* none) and no exclusion term; an empty or absent expression enables every
\* namespace; under "api,-api:child", "api" is enabled, "api:child" and "other"
\* are not. Stated on the decision and on the console after one call.
C2_MatcherDecides ==
    \A i \in 1..Len(loggers) :
        LET l == loggers[i]
            emits == ~shouldSuppressOutput(l, "error")
        IN l.logLevel = "debug" =>
             /\ ~Truthy(l.logPatterns) => emits
             /\ l.logPatterns = Join(l.origin.terms) =>
                  /\ emits <=> SpecEnabled(l.namespace, l.origin.terms)
                  /\ (ncalls = 1 /\ last.logger = i) =>
                        (out # <<>> <=> SpecEnabled(l.namespace, l.origin.terms))
             /\ l.logPatterns = Join(ApiTerms) =>
                  /\ l.namespace = Api => emits
                  /\ l.namespace = ApiChild => ~emits
                  /\ l.namespace = Other => ~emits

C2_Witness ==
    /\ loggers # <<>>
    /\ loggers[1].logPatterns = Join(ApiTerms)
    /\ loggers[1].namespace = ApiChild
    /\ ncalls = 1
    /\ out = <<>>

\* C3: the level filter allows an event iff rank(severity) >= rank(threshold),
\* the threshold of a logger built with no explicit logLevel being the default
\* one.
C3_LevelFilterByRank ==
    \A i \in 1..Len(loggers) :
        LET l == loggers[i]
            threshold == IF l.origin.explicitLevel # UndefLevel
                         THEN l.origin.explicitLevel
                         ELSE DEFAULT_LOGGER_ATTRIBUTES(env).logLevel
        IN \A t \in Levels :
             (logLevelFilter(l.logLevel, t) = TRUE) <=> LevelRank[t] >= LevelRank[threshold]

\* C4: every call of Logger.current() returns a logger.
C4_CurrentReturnsLogger ==
    \A k \in 1..Len(results) : results[k].logger \in 1..Len(loggers)

\* C5: a call of Logger.current() made in the continuation chain of a scope a
\* logger is bound to returns that logger, and no logger bound to another
\* scope, however the callbacks of the scopes interleave.
C5_CurrentIsScopeLogger ==
    \A k \in 1..Len(results) :
        LET r == results[k] IN
        (r.scope # 0 /\ domains[r.scope] # 0) =>
            /\ r.logger = domains[r.scope]
            /\ \A s \in 1..Len(domains) : s # r.scope => domains[s] # r.logger

\* A callback of scope 1 called current() after a call made in scope 2, which
\* followed a call made in scope 1.
C5_Witness ==
    /\ Len(results) = 3
    /\ Len(domains) = 2
    /\ domains[1] # 0 /\ domains[2] # 0
    /\ results[1].scope = 1
    /\ results[2].scope = 2
    /\ results[3].scope = 1

\* The loggers createChildLogger made.
Children == {i \in 1..Len(loggers) : loggers[i].origin.kind = "child"}

\* C6: createChildLogger(suffix) returns a new logger whose namespace is the
\* parent's, ":" and the suffix (the suffix alone under a parent without
\* namespace), whose context and pattern expression are the parent's at the
\* time of the call and whose threshold is the default one; two children of
\* one parent and one suffix are two loggers of the same namespace and the
\* same enable/suppress decisions.
C6_ChildLogger ==
    /\ last.op = "createChildLogger" =>
         LET p == loggers[last.logger]
             c == loggers[Len(loggers)]
         IN /\ c.origin.kind = "child" /\ c.origin.parent = last.logger
            /\ c.namespace = IF p.namespace # EmptyStr /\ p.namespace # UndefStr
                             THEN p.namespace \o <<":">> \o last.suffix
                             ELSE last.suffix
            /\ c.context = p.context
            /\ CtxVal(c.context) = CtxVal(p.context)
            /\ c.logPatterns = p.logPatterns
            /\ c.logLevel = DEFAULT_LOGGER_ATTRIBUTES(env).logLevel
    /\ \A c1 \in Children, c2 \in Children :
         (/\ loggers[c1].origin.parent = loggers[c2].origin.parent
          /\ loggers[c1].origin.suffix = loggers[c2].origin.suffix) =>
            /\ loggers[c1].namespace = loggers[c2].namespace
            /\ \A t \in Levels : shouldSuppressOutput(loggers[c1], t)
                                 = shouldSuppressOutput(loggers[c2], t)

\* The second child of a parent with a namespace and a threshold of its own.
C6_Witness ==
    /\ last.op = "createChildLogger"
    /\ Len(loggers) = 3
    /\ loggers[1].namespace = Db
    /\ loggers[1].logLevel # DEFAULT_LOGGER_ATTRIBUTES(env).logLevel
    /\ loggers[2].origin.parent = 1
    /\ loggers[3].origin.parent = 1

\* C7: an emitted debug event whose encoded context and additional arguments
\* exceed the logger's logLimit has a payload of at most logLimit bytes plus
\* the truncation marker; at every severity the event's message and timestamp
\* are those of the call.
C7_BoundedPayload ==
    LastEmitted =>
        LET e == out[Len(out)].event
            l == loggers[last.logger]
            raw == Encode(e.context) \o last.extra
        IN /\ (last.type = "debug" /\ l.logLimit # NoLimit /\ Len(raw) > l.logLimit[1]) =>
                 Len(e.payload) <= l.logLimit[1] + Len(TruncationMarker)
           /\ e.message = last.message
           /\ e.timestamp = last.ts

C7_Witness ==
    /\ LastEmitted
    /\ last.type = "debug"
    /\ last.message = "m2"
    /\ loggers[1].logLimit = <<2>>
    /\ Len(last.extra) > 2
    /\ Len(out[Len(out)].event.payload) = 2 + Len(TruncationMarker)

\* C8: the events of the calls that were not suppressed are on the console in
\* the order of their calls, and the event of such a call is there when the
\* call has returned.
C8_CallOrder ==
    /\ \A i \in 1..Len(out), j \in 1..Len(out) : i < j => out[i].seq < out[j].seq
    /\ (last.op \in EmitOps /\ ~shouldSuppressOutput(loggers[last.logger], last.type)) =>
          LastEmitted

C8_Witness ==
    /\ Len(out) = 2
    /\ out[1].event.message = "m1"
    /\ out[2].event.message = "m2"
    /\ out[1].event.level = "error"
    /\ out[2].event.level = "debug"

\* C9: no operation changes the namespace, threshold, pattern expression or
\* size limit of an existing logger, and the context of a logger changes only
\* by setSessionId called on that logger.
C9_Frame ==
    [][/\ Len(loggers') >= Len(loggers)
       /\ \A i \in 1..Len(loggers) :
            /\ loggers'[i].namespace = loggers[i].namespace
            /\ loggers'[i].logLevel = loggers[i].logLevel
            /\ loggers'[i].logPatterns = loggers[i].logPatterns
            /\ loggers'[i].logLimit = loggers[i].logLimit
            /\ CtxOf(heap', loggers'[i].context) # CtxOf(heap, loggers[i].context) =>
                 (last'.op = "setSessionId" /\ last'.logger = i)]_vars

\* setSessionId was called on a child; its parent's context is as it was.
C9_Witness ==
    /\ last.op = "setSessionId"
    /\ Len(loggers) >= 2
    /\ last.logger = 2
    /\ loggers[2].origin.parent = 1
    /\ loggers[1].context # 0
    /\ CtxVal(loggers[2].context).sessionId = "s1"
    /\ CtxVal(loggers[1].context).sessionId = "absent"

\* C10: after setSessionId(id) the logger's context has sessionId = id and
\* the fields it had, and the events the logger emits carry that context.
C10_EventsCarrySession ==
    /\ last.op = "setSessionId" =>
         /\ CtxVal(loggers[last.logger].context).sessionId = last.id
    /\ LastEmitted =>
         LET c == CtxVal(loggers[last.logger].context) IN
         c.sessionId # "absent" => out[Len(out)].event.context = c

====
